---- MODULE Spec2Model ----
(***************************************************************************)
(* Model of src/server.js: the /api/hunt discovery pipeline (harvest,      *)
(* batched enrichment, dedupe, pattern detection, narrative request) and   *)
(* its helpers chunkArray, findMetaPattern and getAiAnalysis.              *)
(*                                                                         *)
(* JavaScript strings are TLA+ strings (Len, SubSeq and \o act on them).   *)
(* An optional value is Undefined (<<>>) or Some(v) (<<v>>).               *)
(***************************************************************************)
EXTENDS Integers, Sequences, FiniteSets, TLC

VARIABLES
    pc,               \* position of the /api/hunt handler
    harvest,          \* the three harvest calls: "idle", "pending" or their outcome
    allRaw,           \* RawCandidates kept after the chain filter
    uniqueAddresses,  \* distinct token addresses, first-seen order
    chunks,           \* address batches
    lookup,           \* per batch: the enrichment call, "pending" or its outcome
    results,          \* per batch: what the batch promise settled with
    resolvedTokens,   \* merged EnrichedRecords
    idx,              \* next element the dedupe loop visits
    uniqueTokensMap,  \* the Map, as its entries in insertion order
    finalTokenList,   \* Array.from(uniqueTokensMap.values())
    pattern,          \* { meta, count, filtered } returned by findMetaPattern
    groq,             \* the collaborator call: "idle", "pending" or its outcome
    aiVerdict,        \* what getAiAnalysis returned
    responses         \* the responses sent on res, in order

vars == <<pc, harvest, allRaw, uniqueAddresses, chunks, lookup, results,
          resolvedTokens, idx, uniqueTokensMap, finalTokenList, pattern,
          groq, aiVerdict, responses>>

---------------------------------------------------------------------------
(* Values *)

\* A record lists its fields in the order in which their names first occur
\* in this module: TLC keeps a record's fields in that order.

Undefined == <<>>

Some(v) == <<v>>

\* JavaScript truthiness of an optional string: undefined and "" are falsy.
Truthy(o) == o # Undefined /\ o[1] # ""

Min(a, b) == IF a < b THEN a ELSE b

\* The element of a singleton set.  The({e : x \in {v}}) is e with x bound to
\* the value of v: an assignment to a local, evaluated once, where it stands.
The(S) == CHOOSE x \in S : TRUE

---------------------------------------------------------------------------
(* String built-ins used by the code *)

LowerAZ == "abcdefghijklmnopqrstuvwxyz"

UpperAZ == "ABCDEFGHIJKLMNOPQRSTUVWXYZ"

CharAt(s, i) == SubSeq(s, i, i)

UpperLetters == {CharAt(UpperAZ, i) : i \in 1..Len(UpperAZ)}

LowerLetters == {CharAt(LowerAZ, i) : i \in 1..Len(LowerAZ)}

UpperOf ==
    [c \in LowerLetters |->
        CharAt(UpperAZ, CHOOSE i \in 1..Len(LowerAZ) : CharAt(LowerAZ, i) = c)]

IsUpperLetter(c) == c \in UpperLetters

UpperChar(c) == IF c \in LowerLetters THEN UpperOf[c] ELSE c

\* String.prototype.toUpperCase
toUpperCase(s) ==
    LET RECURSIVE up(_, _)
        up(lo, hi) ==
            IF lo > hi THEN ""
            ELSE IF lo = hi THEN UpperChar(CharAt(s, lo))
            ELSE up(lo, (lo + hi) \div 2) \o up((lo + hi) \div 2 + 1, hi)
    IN  up(1, Len(s))

\* String.prototype.indexOf, 1-based; 0 when sub does not occur
indexOf(s, sub) ==
    LET hits == {i \in 1..(Len(s) - Len(sub) + 1) : SubSeq(s, i, i + Len(sub) - 1) = sub}
    IN  IF hits = {} THEN 0 ELSE CHOOSE i \in hits : \A j \in hits : i <= j

\* String.prototype.includes
includes(s, sub) == Len(sub) = 0 \/ indexOf(s, sub) > 0

\* s.split(sep)[0]
splitFirst(s, sep) ==
    IF indexOf(s, sep) = 0 THEN s ELSE SubSeq(s, 1, indexOf(s, sep) - 1)

\* s.replace(/[^A-Z ]/g, " ")
replaceNonLetters(s) ==
    LET RECURSIVE rep(_, _)
        rep(lo, hi) ==
            IF lo > hi THEN ""
            ELSE IF lo = hi
            THEN (IF IsUpperLetter(CharAt(s, lo)) \/ CharAt(s, lo) = " "
                  THEN CharAt(s, lo) ELSE " ")
            ELSE rep(lo, (lo + hi) \div 2) \o rep((lo + hi) \div 2 + 1, hi)
    IN  rep(1, Len(s))

\* s.split(/\s+/) for a string whose only white space is the space character
\* (what replaceNonLetters leaves): a leading or trailing run of spaces
\* yields an empty first or last piece, and "" yields [""].
splitSpaces(s) ==
    LET isSpace(i) == CharAt(s, i) = " "
        starts == {i \in 1..Len(s) : ~isSpace(i) /\ (i = 1 \/ isSpace(i - 1))}
        endOf(i) == CHOOSE j \in i..Len(s) :
                        /\ \A k \in i..j : ~isSpace(k)
                        /\ (j = Len(s) \/ isSpace(j + 1))
        nth(k) == CHOOSE i \in starts : Cardinality({j \in starts : j < i}) = k - 1
        pieces == [k \in 1..Cardinality(starts) |-> SubSeq(s, nth(k), endOf(nth(k)))]
    IN  IF Len(s) = 0 THEN <<"">>
        ELSE (IF isSpace(1) THEN <<"">> ELSE <<>>) \o pieces
                 \o (IF isSpace(Len(s)) THEN <<"">> ELSE <<>>)

---------------------------------------------------------------------------
(* chunkArray *)

CeilDiv(n, d) == (n + d - 1) \div d

\* arr.slice(from, to) with 0-based from (inclusive) and to (exclusive)
slice(arr, from, to) == SubSeq(arr, from + 1, Min(to, Len(arr)))

\* chunkArray with Math.floor for Math.ceil: the last, partial batch is lost
chunkArrayFloor(arr, size) ==
    [i \in 1..(Len(arr) \div size) |->
        slice(arr, (i - 1) * size, (i - 1) * size + size)]

chunkArray(arr, size) ==
    [i \in 1..CeilDiv(Len(arr), size) |->
        slice(arr, (i - 1) * size, (i - 1) * size + size)]

---------------------------------------------------------------------------
(* findMetaPattern *)

stopWords == <<
    "THE", "AND", "FOR", "SOL", "TOKEN", "COIN", "MEME", "PRO", "MAX",
    "BULL", "PUMP", "MOON", "DEV", "CTO", "COMMUNITY", "OFFICIAL",
    "REAL", "NEW", "FINANCE", "SWAP", "PROTOCOL", "BETA", "ALPHA", "BASE",
    "SOLANA", "COINS", "GROUP", "TEAM", "LIVE", "VIDEO", "GAME", "AI", "CHAT" >>

MinWordLen == 2

MaxWordLen == 15

FallbackSize == 20

IsStopWord(w) == \E i \in 1..Len(stopWords) : stopWords[i] = w

\* the words of one record name, before filtering
nameWords(name) ==
    The({ splitSpaces(cleanName) :
            cleanName \in { replaceNonLetters(first) :
                              first \in { splitFirst(upper, "($") :
                                            upper \in {toUpperCase(name)} } } })

\* the filter without its stop-word test
keepsWordNoStop(w) == Len(w) > MinWordLen /\ Len(w) < MaxWordLen

\* the filter of the inner forEach
keepsWord(w) == Len(w) > MinWordLen /\ Len(w) < MaxWordLen /\ ~IsStopWord(w)

\* wordCounts[w] = (wordCounts[w] || 0) + 1, on the object's entries in
\* insertion order
countWord(wc, w) ==
    IF \E i \in 1..Len(wc) : wc[i].word = w
    THEN LET i == CHOOSE j \in 1..Len(wc) : wc[j].word = w
         IN  [wc EXCEPT ![i].n = @ + 1]
    ELSE Append(wc, [n |-> 1, word |-> w])

\* a tally of names: a word repeated inside one name is counted once
RECURSIVE countWordsOncePerName(_, _)
countWordsOncePerName(wc, words) ==
    IF Len(words) = 0 THEN wc
    ELSE The({ countWordsOncePerName(counted, rest) :
                 counted \in {IF /\ keepsWord(Head(words))
                                 /\ \A i \in 2..Len(words) : words[i] # Head(words)
                              THEN countWord(wc, Head(words)) ELSE wc},
                 rest \in {Tail(words)} })

RECURSIVE countWords(_, _)
countWords(wc, words) ==
    IF Len(words) = 0 THEN wc
    ELSE The({ countWords(counted, rest) :
                 counted \in {IF keepsWord(Head(words))
                              THEN countWord(wc, Head(words)) ELSE wc},
                 rest \in {Tail(words)} })

RECURSIVE wordCounts(_, _)
wordCounts(wc, tokens) ==
    IF Len(tokens) = 0 THEN wc
    ELSE IF Len(tokens) = 1
    THEN The({ countWords(wc, words) : words \in {nameWords(tokens[1].name)} })
    ELSE The({ wordCounts(counted, later) :
                 counted \in {wordCounts(wc, SubSeq(tokens, 1, Len(tokens) \div 2))},
                 later \in {SubSeq(tokens, Len(tokens) \div 2 + 1, Len(tokens))} })

\* the sort with (a, b) => a[1] - b[1]: ascending tally
insertAsc(sorted, e) ==
    LET k == Cardinality({i \in 1..Len(sorted) : sorted[i].n <= e.n})
    IN  SubSeq(sorted, 1, k) \o <<e>> \o SubSeq(sorted, k + 1, Len(sorted))

\* a sort that puts an entry before the entries of equal tally
insertDescTiesFirst(sorted, e) ==
    LET k == Cardinality({i \in 1..Len(sorted) : sorted[i].n > e.n})
    IN  SubSeq(sorted, 1, k) \o <<e>> \o SubSeq(sorted, k + 1, Len(sorted))

\* Array.prototype.sort with (a, b) => b[1] - a[1]: stable, descending tally
insertDesc(sorted, e) ==
    LET k == Cardinality({i \in 1..Len(sorted) : sorted[i].n >= e.n})
    IN  SubSeq(sorted, 1, k) \o <<e>> \o SubSeq(sorted, k + 1, Len(sorted))

RECURSIVE sortDesc(_, _)
sortDesc(sorted, rest) ==
    IF Len(rest) = 0 THEN sorted
    ELSE The({ sortDesc(placed, later) :
                 placed \in {insertDesc(sorted, Head(rest))},
                 later \in {Tail(rest)} })

sortedWords(tokens) ==
    The({ sortDesc(<<>>, entries) : entries \in {wordCounts(<<>>, tokens)} })

\* a filter that looks at the name only
matchesThemeInName(t, word) ==
    \E upper \in {toUpperCase(t.name)} : includes(upper, word)

matchesTheme(t, word) ==
    \/ \E upper \in {toUpperCase(t.name)} : includes(upper, word)
    \/ (Truthy(t.description)
        /\ \E upper \in {toUpperCase(t.description[1])} : includes(upper, word))

findMetaPattern(tokens) ==
    The({ IF Len(sorted) = 0
          THEN [meta |-> "None", count |-> 0,
                filtered |-> slice(tokens, 0, FallbackSize)]
          ELSE [meta |-> sorted[1].word, count |-> sorted[1].n,
                filtered |-> SelectSeq(tokens, LAMBDA t : matchesTheme(t, sorted[1].word))] :
          sorted \in {sortedWords(tokens)} })

---------------------------------------------------------------------------
(* Upstream data the model draws responses from *)

\* largest block of consecutive addresses one harvest endpoint returns
MaxBlock == 31

ChunkSize == 30

Endpoints == 1..3

HarvestIcon == <<"iconProfiles", "iconBoosts", "iconTop">>

HarvestDescription == <<Some("the doge of wall street"), Undefined, Some("")>>

RawItem(e, a, chain) ==
    [description |-> HarvestDescription[e],
     chainId |-> chain, tokenAddress |-> a, icon |-> Some(HarvestIcon[e]),
     header |-> IF e = 1 THEN Some("headerProfiles") ELSE Undefined]

\* first address of endpoint e's block: profiles and boosts overlap fully,
\* top overlaps the last address of a full profiles block
BlockStart(e) == IF e = 3 THEN MaxBlock ELSE 1

\* n target-chain items; the boosts feed also carries an item of another chain
HarvestData(e, n) ==
    (IF e = 2 THEN <<RawItem(e, BlockStart(e), "ethereum")>> ELSE <<>>)
        \o [k \in 1..n |-> RawItem(e, BlockStart(e) + k - 1, "solana")]

HarvestSizes == {0, 2, MaxBlock}

\* an address no harvest item carries (a pair listed under its quote token)
ForeignAddress == BlockStart(1) - 1

Pair(url, addr, name, symbol, liquidity, info) ==
    [url |-> url, liquidity |-> liquidity, info |-> info,
     baseToken |-> [name |-> name, symbol |-> symbol, address |-> addr]]

Usd(n) == Some([usd |-> Some(n)])

NoUsd == Some([usd |-> Undefined])

Info(k) == Some([header |-> Some("header" \o k), imageUrl |-> Some("image" \o k)])

\* response bodies of one enrichment lookup for a chunk of addresses
LookupData(chunk) ==
    LET a == chunk[1]
        b == chunk[Len(chunk)]
    IN  { Undefined,
          Some([pairs |-> Undefined]),
          Some([pairs |-> Some(<<
              Pair(<<a, 1>>, a, "Doge King ($DK)", "DK", Usd(5), Undefined),
              Pair(<<a, 2>>, a, "Doge Clone", "DC", Usd(9), Info("2")),
              Pair(<<a, 3>>, b, "DOGE-QUEEN", "DQ", NoUsd, Info("3")),
              Pair(<<a, 4>>, ForeignAddress, "doge lord", "DL", Undefined, Info("4")) >>)]),
          Some([pairs |-> Some(<<
              Pair(<<a, 5>>, ForeignAddress, "SOLANA MOON", "SM", Usd(1), Undefined) >>)]) }

\* what groq.chat.completions.create may resolve with
Completions ==
    { Undefined,
      Some([choices |-> Undefined]),
      Some([choices |-> Some(<<>>)]),
      Some([choices |-> Some(<<[message |-> Undefined]>>)]),
      Some([choices |-> Some(<<[message |-> Some([content |-> Undefined])]>>)]),
      Some([choices |-> Some(<<[message |-> Some([content |-> Some("")])]>>)]),
      Some([choices |-> Some(<<[message |-> Some([content |-> Some("DOGE is early.")])]>>)]) }

---------------------------------------------------------------------------
(* Promises *)

Pending == [state |-> "pending"]

Fulfilled(v) == [state |-> "fulfilled", value |-> v]

Rejected == [state |-> "rejected"]

AllFulfilled(ps) == \A i \in DOMAIN ps : ps[i].state = "fulfilled"

AnyRejected(ps) == \E i \in DOMAIN ps : ps[i].state = "rejected"

---------------------------------------------------------------------------
(* /api/hunt: harvest and chunking *)

RECURSIVE flatten(_)
flatten(lists) ==
    IF Len(lists) = 0 THEN <<>> ELSE Head(lists) \o flatten(Tail(lists))

\* [...profilesRes.data, ...boostsRes.data, ...topRes.data].filter(solana)
filterRaw(h) ==
    SelectSeq(h[1].value \o h[2].value \o h[3].value,
              LAMBDA t : t.chainId = "solana")

\* [...new Set(list)]: the distinct values in first-seen order
distinct(list) ==
    LET firsts == SelectSeq([i \in 1..Len(list) |-> i],
                            LAMBDA i : \A j \in 1..(i - 1) : list[j] # list[i])
    IN  [k \in 1..Len(firsts) |-> list[firsts[k]]]

addressesOf(raw) == distinct([i \in 1..Len(raw) |-> raw[i].tokenAddress])

---------------------------------------------------------------------------
(* /api/hunt: one enrichment batch *)

\* the callback without its try/catch: a failed lookup rejects the batch
batchReturnNoCatch(outcome) ==
    IF outcome.state = "fulfilled"
    THEN Fulfilled(IF outcome.value = Undefined \/ outcome.value[1].pairs = Undefined
                   THEN <<>> ELSE outcome.value[1].pairs[1])
    ELSE Rejected

\* the async callback of chunks.map: res.data?.pairs || [] on success,
\* [] from the catch on failure; the promise it returns never rejects
batchReturn(outcome) ==
    IF outcome.state = "fulfilled"
    THEN Fulfilled(IF outcome.value = Undefined \/ outcome.value[1].pairs = Undefined
                   THEN <<>> ELSE outcome.value[1].pairs[1])
    ELSE Fulfilled(<<>>)

\* results.forEach(batch => { if (batch) resolvedTokens.push(...batch); })
mergeResults(rs) == flatten([i \in 1..Len(rs) |-> rs[i].value])

---------------------------------------------------------------------------
(* /api/hunt: the dedupe loop *)

\* a property read: undefined when the object has no such property
prop(obj, key) == IF key \in DOMAIN obj THEN obj[key] ELSE Undefined

\* a > b on optional numbers: undefined converts to NaN, which compares false
jsGreater(a, b) == a # Undefined /\ b # Undefined /\ a[1] > b[1]

\* p.liquidity?.usd
liquidityUsd(p) == IF p.liquidity = Undefined THEN Undefined ELSE p.liquidity[1].usd

mapHas(map, key) == \E i \in 1..Len(map) : map[i].key = key

mapGet(map, key) == map[CHOOSE i \in 1..Len(map) : map[i].key = key].value

\* Map.prototype.set: a new key is appended, an old key keeps its position
mapSet(map, key, value) ==
    IF mapHas(map, key)
    THEN [i \in 1..Len(map) |->
            IF map[i].key = key THEN [value |-> value, key |-> key] ELSE map[i]]
    ELSE Append(map, [value |-> value, key |-> key])

mapValues(map) == [i \in 1..Len(map) |-> map[i].value]

\* allRaw.find(r => r.tokenAddress === addr)
findOriginal(raw, addr) ==
    LET hits == {i \in 1..Len(raw) : raw[i].tokenAddress = addr}
    IN  IF hits = {} THEN Undefined
        ELSE Some(raw[CHOOSE i \in hits : \A j \in hits : i <= j])

\* a record that prefers the EnrichedRecord's image and header to the
\* harvested ones
canonicalRecordInfoFirst(p, raw) ==
    LET original == findOriginal(raw, p.baseToken.address)
    IN  [name |-> p.baseToken.name,
         description |-> IF original # Undefined THEN original[1].description
                         ELSE Some("No description."),
         icon |-> IF p.info # Undefined THEN p.info[1].imageUrl
                  ELSE IF original # Undefined THEN original[1].icon ELSE Undefined,
         header |-> IF p.info # Undefined THEN p.info[1].header
                    ELSE IF original # Undefined THEN original[1].header ELSE Undefined,
         url |-> p.url,
         symbol |-> p.baseToken.symbol,
         address |-> p.baseToken.address]

canonicalRecord(p, raw) ==
    LET original == findOriginal(raw, p.baseToken.address)
    IN  [name |-> p.baseToken.name,
         description |-> IF original # Undefined THEN original[1].description
                         ELSE Some("No description."),
         icon |-> IF original # Undefined THEN original[1].icon
                  ELSE IF p.info = Undefined THEN Undefined ELSE p.info[1].imageUrl,
         header |-> IF original # Undefined THEN original[1].header
                    ELSE IF p.info = Undefined THEN Undefined ELSE p.info[1].header,
         url |-> p.url,
         symbol |-> p.baseToken.symbol,
         address |-> p.baseToken.address]

\* the test of the dedupe loop; the stored record has no liquidity property
replaces(map, p) ==
    \/ ~mapHas(map, p.baseToken.address)
    \/ jsGreater(liquidityUsd(p), prop(mapGet(map, p.baseToken.address), "liquidity"))

\* the loop collecting into an array: every record is pushed
dedupeStepPush(map, p, raw) ==
    Append(map, [value |-> canonicalRecord(p, raw), key |-> p.baseToken.address])

\* a loop that skips the records whose address was not harvested
dedupeStepHarvested(map, p, raw) ==
    IF findOriginal(raw, p.baseToken.address) # Undefined /\ replaces(map, p)
    THEN mapSet(map, p.baseToken.address, canonicalRecord(p, raw))
    ELSE map

\* one iteration of resolvedTokens.forEach
dedupeStep(map, p, raw) ==
    IF replaces(map, p)
    THEN mapSet(map, p.baseToken.address, canonicalRecord(p, raw))
    ELSE map

RECURSIVE dedupe(_, _, _)
dedupe(map, tokens, raw) ==
    IF Len(tokens) = 0 THEN map
    ELSE IF Len(tokens) = 1 THEN dedupeStep(map, tokens[1], raw)
    ELSE The({ dedupe(stored, later, raw) :
                 stored \in {dedupe(map, SubSeq(tokens, 1, Len(tokens) \div 2), raw)},
                 later \in {SubSeq(tokens, Len(tokens) \div 2 + 1, Len(tokens))} })

---------------------------------------------------------------------------
(* getAiAnalysis *)

SupportThreshold == 3

PromptTokens == 8

BioLength == 80

\* the returned texts, without their leading warning sign
InsufficientEvidence == "Market is scattered. No strong narrative found."

GenerationFailed == "AI Error. Check API Key."

NoAnalysis == "No analysis generated."

\* the evidence lines of the prompt
tokenText(tokens) ==
    [i \in 1..Min(PromptTokens, Len(tokens)) |->
        [name |-> tokens[i].name, symbol |-> tokens[i].symbol,
         bio |-> IF Truthy(tokens[i].description)
                 THEN SubSeq(tokens[i].description[1], 1,
                             Min(BioLength, Len(tokens[i].description[1])))
                 ELSE "No Bio"]]

buildPrompt(metaWord, count, tokens) ==
    [meta |-> metaWord, count |-> count, tokenText |-> tokenText(tokens)]

\* the threshold test written count < 2
shortCircuitsBelowTwo(count) == count < SupportThreshold - 1

\* the threshold test written count && count < 3: a count of 0 passes it
shortCircuitsNonZero(count) == count > 0 /\ count < SupportThreshold

\* whether getAiAnalysis returns before the try block
shortCircuits(count) == count < SupportThreshold

\* the read without optional chaining, completion.choices[0].message.content:
\* a missing first choice or message throws as well
readCompletionUnchained(completion) ==
    IF completion = Undefined \/ completion[1].choices = Undefined
    THEN GenerationFailed
    ELSE LET choices == completion[1].choices[1]
         IN  IF Len(choices) = 0 THEN GenerationFailed
             ELSE IF choices[1].message = Undefined THEN GenerationFailed
             ELSE IF ~Truthy(choices[1].message[1].content) THEN NoAnalysis
             ELSE choices[1].message[1].content[1]

\* completion.choices[0]?.message?.content || "No analysis generated.";
\* reading choices of a missing completion, or [0] of a missing choices,
\* throws and the catch returns the failure text
readCompletion(completion) ==
    IF completion = Undefined \/ completion[1].choices = Undefined
    THEN GenerationFailed
    ELSE LET choices == completion[1].choices[1]
         IN  IF Len(choices) = 0 THEN NoAnalysis
             ELSE IF choices[1].message = Undefined THEN NoAnalysis
             ELSE IF ~Truthy(choices[1].message[1].content) THEN NoAnalysis
             ELSE choices[1].message[1].content[1]

\* the value getAiAnalysis returns once the collaborator call has settled
aiResult(outcome) ==
    IF outcome.state = "fulfilled" THEN readCompletion(outcome.value)
    ELSE GenerationFailed

---------------------------------------------------------------------------
(* /api/hunt: the responses *)

SuccessEnvelope(list, pat, verdict) ==
    [status |-> 200,
     body |-> [success |-> TRUE, total_scanned |-> Len(list),
               meta_keyword |-> pat.meta, meta_count |-> pat.count,
               ai_analysis |-> verdict, filtered_list |-> pat.filtered]]

FailureEnvelope ==
    [status |-> 500, body |-> [success |-> FALSE, error |-> "Massive Scan Failed."]]

---------------------------------------------------------------------------
(* The /api/hunt handler as a state machine.  The synchronous stretches    *)
(* between two awaits are cut into steps (chunk, merge, dedupe, pattern,    *)
(* ai, respond); no call is pending during them, so nothing interleaves.    *)

Idle == [state |-> "idle"]

NoPattern == [meta |-> "", count |-> 0, filtered |-> <<>>]

Init ==
    /\ pc = "idle"
    /\ harvest = [e \in Endpoints |-> Idle]
    /\ allRaw = <<>>
    /\ uniqueAddresses = <<>>
    /\ chunks = <<>>
    /\ lookup = <<>>
    /\ results = <<>>
    /\ resolvedTokens = <<>>
    /\ idx = 1
    /\ uniqueTokensMap = <<>>
    /\ finalTokenList = <<>>
    /\ pattern = NoPattern
    /\ groq = Idle
    /\ aiVerdict = Undefined
    /\ responses = <<>>

\* a request arrives, the first or one after an answered request: a new
\* activation of the handler, whose variables are all its own locals, and
\* the three axios.get calls are issued together
StartHunt ==
    /\ pc \in {"idle", "done"}
    /\ pc' = "harvest"
    /\ harvest' = [e \in Endpoints |-> Pending]
    /\ allRaw' = <<>>
    /\ uniqueAddresses' = <<>>
    /\ chunks' = <<>>
    /\ lookup' = <<>>
    /\ results' = <<>>
    /\ resolvedTokens' = <<>>
    /\ idx' = 1
    /\ uniqueTokensMap' = <<>>
    /\ finalTokenList' = <<>>
    /\ pattern' = NoPattern
    /\ groq' = Idle
    /\ aiVerdict' = Undefined
    /\ responses' = <<>>

\* harvest call e resolves; Promise.all resolves with the last of the three
HarvestResolve(e, data) ==
    /\ harvest[e].state = "pending"
    /\ harvest' = [harvest EXCEPT ![e] = Fulfilled(data)]
    /\ pc' = IF pc = "harvest" /\ AllFulfilled(harvest') THEN "chunk" ELSE pc
    /\ UNCHANGED <<allRaw, uniqueAddresses, chunks, lookup, results, resolvedTokens,
                   idx, uniqueTokensMap, finalTokenList, pattern, groq, aiVerdict,
                   responses>>

\* a rejection that is swallowed: nothing answers the request
HarvestRejectSwallowed(e) ==
    /\ harvest[e].state = "pending"
    /\ harvest' = [harvest EXCEPT ![e] = Rejected]
    /\ UNCHANGED <<pc, responses, allRaw, uniqueAddresses, chunks, lookup, results,
                   resolvedTokens, idx, uniqueTokensMap, finalTokenList, pattern,
                   groq, aiVerdict>>

\* a catch that answers at every rejection, not only at the one that rejects
\* Promise.all
HarvestRejectEach(e) ==
    /\ harvest[e].state = "pending"
    /\ harvest' = [harvest EXCEPT ![e] = Rejected]
    /\ pc' = "done"
    /\ responses' = Append(responses, FailureEnvelope)
    /\ UNCHANGED <<allRaw, uniqueAddresses, chunks, lookup, results, resolvedTokens,
                   idx, uniqueTokensMap, finalTokenList, pattern, groq, aiVerdict>>

\* a harvest stage that waits for every call to settle before it fails
HarvestRejectAllSettled(e) ==
    /\ harvest[e].state = "pending"
    /\ harvest' = [harvest EXCEPT ![e] = Rejected]
    /\ IF pc = "harvest" /\ \A o \in Endpoints : harvest'[o].state # "pending"
       THEN pc' = "done" /\ responses' = Append(responses, FailureEnvelope)
       ELSE UNCHANGED <<pc, responses>>
    /\ UNCHANGED <<allRaw, uniqueAddresses, chunks, lookup, results, resolvedTokens,
                   idx, uniqueTokensMap, finalTokenList, pattern, groq, aiVerdict>>

\* harvest call e rejects; Promise.all rejects with the first rejection and
\* the handler's catch answers at once, whatever is still pending
HarvestReject(e) ==
    /\ harvest[e].state = "pending"
    /\ harvest' = [harvest EXCEPT ![e] = Rejected]
    /\ IF pc = "harvest"
       THEN pc' = "done" /\ responses' = Append(responses, FailureEnvelope)
       ELSE UNCHANGED <<pc, responses>>
    /\ UNCHANGED <<allRaw, uniqueAddresses, chunks, lookup, results, resolvedTokens,
                   idx, uniqueTokensMap, finalTokenList, pattern, groq, aiVerdict>>

\* filter, unique addresses, chunkArray, and one lookup issued per chunk
ChunkRequests ==
    /\ pc = "chunk"
    /\ allRaw' = filterRaw(harvest)
    /\ uniqueAddresses' = addressesOf(allRaw')
    /\ chunks' = chunkArray(uniqueAddresses', ChunkSize)
    /\ lookup' = [i \in 1..Len(chunks') |-> Pending]
    /\ results' = [i \in 1..Len(chunks') |-> Pending]
    /\ pc' = IF Len(chunks') = 0 THEN "merge" ELSE "enrich"
    /\ UNCHANGED <<harvest, resolvedTokens, idx, uniqueTokensMap, finalTokenList,
                   pattern, groq, aiVerdict, responses>>

\* results collected in the order of arrival: the outcome of the lookup that
\* settles takes the first free place
BatchSettleOnArrival(i, outcome) ==
    /\ pc = "enrich"
    /\ lookup[i].state = "pending"
    /\ lookup' = [lookup EXCEPT ![i] = outcome]
    /\ results' = [results EXCEPT
                      ![CHOOSE j \in 1..Len(results) :
                          /\ results[j].state = "pending"
                          /\ \A k \in 1..(j - 1) : results[k].state # "pending"] =
                          batchReturn(outcome)]
    /\ pc' = IF AllFulfilled(results') THEN "merge" ELSE pc
    /\ UNCHANGED <<harvest, allRaw, uniqueAddresses, chunks, resolvedTokens, idx,
                   uniqueTokensMap, finalTokenList, pattern, groq, aiVerdict, responses>>

\* lookup i has settled with outcome: its batch promise settles, and
\* Promise.all(batches) with it (rejecting with a rejected batch promise)
BatchSettle(i, outcome) ==
    /\ pc = "enrich"
    /\ lookup[i].state = "pending"
    /\ lookup' = [lookup EXCEPT ![i] = outcome]
    /\ results' = [results EXCEPT ![i] = batchReturn(outcome)]
    /\ IF results'[i].state = "rejected"
       THEN pc' = "done" /\ responses' = Append(responses, FailureEnvelope)
       ELSE /\ pc' = IF AllFulfilled(results') THEN "merge" ELSE pc
            /\ UNCHANGED responses
    /\ UNCHANGED <<harvest, allRaw, uniqueAddresses, chunks, resolvedTokens, idx,
                   uniqueTokensMap, finalTokenList, pattern, groq, aiVerdict>>

BatchResolve(i, data) == BatchSettle(i, Fulfilled(data))

BatchReject(i) == BatchSettle(i, Rejected)

MergeResults ==
    /\ pc = "merge"
    /\ resolvedTokens' = mergeResults(results)
    /\ uniqueTokensMap' = <<>>
    /\ idx' = 1
    /\ pc' = "dedupe"
    /\ UNCHANGED <<harvest, allRaw, uniqueAddresses, chunks, lookup, results,
                   finalTokenList, pattern, groq, aiVerdict, responses>>

DedupeIter ==
    /\ pc = "dedupe"
    /\ idx <= Len(resolvedTokens)
    /\ uniqueTokensMap' = dedupeStep(uniqueTokensMap, resolvedTokens[idx], allRaw)
    /\ idx' = idx + 1
    /\ UNCHANGED <<pc, harvest, allRaw, uniqueAddresses, chunks, lookup, results,
                   resolvedTokens, finalTokenList, pattern, groq, aiVerdict, responses>>

DedupeDone ==
    /\ pc = "dedupe"
    /\ idx > Len(resolvedTokens)
    /\ finalTokenList' = mapValues(uniqueTokensMap)
    /\ pc' = "pattern"
    /\ UNCHANGED <<harvest, allRaw, uniqueAddresses, chunks, lookup, results,
                   resolvedTokens, idx, uniqueTokensMap, pattern, groq, aiVerdict,
                   responses>>

PatternRecognition ==
    /\ pc = "pattern"
    /\ pattern' = findMetaPattern(finalTokenList)
    /\ pc' = "ai"
    /\ UNCHANGED <<harvest, allRaw, uniqueAddresses, chunks, lookup, results,
                   resolvedTokens, idx, uniqueTokensMap, finalTokenList, groq,
                   aiVerdict, responses>>

\* getAiAnalysis returns the placeholder without calling the collaborator
AiShortCircuit ==
    /\ pc = "ai"
    /\ shortCircuits(pattern.count)
    /\ aiVerdict' = Some(InsufficientEvidence)
    /\ pc' = "respond"
    /\ UNCHANGED <<harvest, allRaw, uniqueAddresses, chunks, lookup, results,
                   resolvedTokens, idx, uniqueTokensMap, finalTokenList, pattern,
                   groq, responses>>

\* getAiAnalysis builds the prompt and calls groq.chat.completions.create
AiRequest ==
    /\ pc = "ai"
    /\ ~shortCircuits(pattern.count)
    /\ groq' = [state |-> "pending",
                prompt |-> buildPrompt(pattern.meta, pattern.count, pattern.filtered)]
    /\ pc' = "groq"
    /\ UNCHANGED <<harvest, allRaw, uniqueAddresses, chunks, lookup, results,
                   resolvedTokens, idx, uniqueTokensMap, finalTokenList, pattern,
                   aiVerdict, responses>>

\* a getAiAnalysis that calls the collaborator again after a first rejection
GroqSettleRetry(outcome) ==
    /\ pc = "groq"
    /\ groq.state = "pending"
    /\ IF outcome = Rejected /\ "settled" \notin DOMAIN groq
       THEN /\ groq' = [state |-> "pending", prompt |-> groq.prompt, settled |-> outcome]
            /\ UNCHANGED <<pc, aiVerdict>>
       ELSE /\ groq' = [state |-> outcome.state, prompt |-> groq.prompt,
                        settled |-> outcome]
            /\ aiVerdict' = Some(aiResult(outcome))
            /\ pc' = "respond"
    /\ UNCHANGED <<harvest, allRaw, uniqueAddresses, chunks, lookup, results,
                   resolvedTokens, idx, uniqueTokensMap, finalTokenList, pattern,
                   responses>>

\* the collaborator call settles and getAiAnalysis returns
GroqSettle(outcome) ==
    /\ pc = "groq"
    /\ groq.state = "pending"
    /\ groq' = [state |-> outcome.state, prompt |-> groq.prompt, settled |-> outcome]
    /\ aiVerdict' = Some(aiResult(outcome))
    /\ pc' = "respond"
    /\ UNCHANGED <<harvest, allRaw, uniqueAddresses, chunks, lookup, results,
                   resolvedTokens, idx, uniqueTokensMap, finalTokenList, pattern,
                   responses>>

GroqResolve(completion) == GroqSettle(Fulfilled(completion))

GroqReject == GroqSettle(Rejected)

\* res.json of the success envelope
SendSuccess ==
    /\ pc = "respond"
    /\ responses' = Append(responses,
                           SuccessEnvelope(finalTokenList, pattern, aiVerdict[1]))
    /\ pc' = "done"
    /\ UNCHANGED <<harvest, allRaw, uniqueAddresses, chunks, lookup, results,
                   resolvedTokens, idx, uniqueTokensMap, finalTokenList, pattern,
                   groq, aiVerdict>>

Next ==
    \/ StartHunt
    \/ \E e \in Endpoints, n \in HarvestSizes : HarvestResolve(e, HarvestData(e, n))
    \/ \E e \in Endpoints : HarvestReject(e)
    \/ ChunkRequests
    \/ \E i \in 1..Len(chunks) : \E data \in LookupData(chunks[i]) : BatchResolve(i, data)
    \/ \E i \in 1..Len(chunks) : BatchReject(i)
    \/ MergeResults
    \/ DedupeIter
    \/ DedupeDone
    \/ PatternRecognition
    \/ AiShortCircuit
    \/ AiRequest
    \/ \E completion \in Completions : GroqResolve(completion)
    \/ GroqReject
    \/ SendSuccess

Spec == Init /\ [][Next]_vars

\* harvest call e settles
HarvestSettles(e) ==
    \/ \E n \in HarvestSizes : HarvestResolve(e, HarvestData(e, n))
    \/ HarvestReject(e)

\* some enrichment lookup settles
BatchSettles ==
    \E i \in 1..Len(chunks) :
        \/ \E data \in LookupData(chunks[i]) : BatchResolve(i, data)
        \/ BatchReject(i)

\* the collaborator call settles
GroqSettles == GroqReject \/ \E completion \in Completions : GroqResolve(completion)

\* a synchronous stretch of the handler runs
HandlerStep ==
    \/ ChunkRequests
    \/ MergeResults
    \/ DedupeIter
    \/ DedupeDone
    \/ PatternRecognition
    \/ AiShortCircuit
    \/ AiRequest
    \/ SendSuccess

\* The handler under the scheduling of the event loop: a continuation that
\* is ready runs, and every upstream call that was issued settles.
FairSpec ==
    /\ Spec
    /\ WF_vars(HandlerStep)
    /\ \A e \in Endpoints : WF_vars(HarvestSettles(e))
    /\ WF_vars(BatchSettles)
    /\ WF_vars(GroqSettles)

---------------------------------------------------------------------------
(* chunkArray on its own: the handler at the chunk step, the profiles      *)
(* feed carrying 0..MaxAddresses distinct target-chain addresses.           *)

MaxAddresses == 66

InitAt(stage) ==
    /\ pc = stage
    /\ groq = Idle
    /\ aiVerdict = Undefined
    /\ responses = <<>>

\* the handler after the lookups of a completed harvest h have all resolved,
\* the lookup of chunk i carrying the pairs carried[i]
Enriched(h, carried) ==
    /\ harvest = h
    /\ allRaw = filterRaw(harvest)
    /\ uniqueAddresses = addressesOf(allRaw)
    /\ chunks = chunkArray(uniqueAddresses, ChunkSize)
    /\ lookup = [i \in 1..Len(chunks) |->
                    Fulfilled(Some([pairs |-> Some(carried[i])]))]
    /\ results = [i \in 1..Len(chunks) |-> batchReturn(lookup[i])]

InitChunk ==
    /\ InitAt("chunk")
    /\ idx = 1
    /\ \E n \in 0..MaxAddresses :
          harvest = [e \in Endpoints |->
                        Fulfilled(IF e = 1
                                  THEN [k \in 1..n |-> RawItem(e, k, "solana")]
                                  ELSE HarvestData(e, 0))]
    /\ allRaw = <<>>
    /\ uniqueAddresses = <<>>
    /\ chunks = <<>>
    /\ lookup = <<>>
    /\ results = <<>>
    /\ resolvedTokens = <<>>
    /\ uniqueTokensMap = <<>>
    /\ finalTokenList = <<>>
    /\ pattern = NoPattern

NextChunk == ChunkRequests

SpecChunk == InitChunk /\ [][NextChunk]_vars

---------------------------------------------------------------------------
(* The Resolver on its own: the handler at the merge step of a harvest of  *)
(* two chunks, the pairs the two lookups carried drawn from bounded sets.   *)

\* most EnrichedRecords the batches return together
MaxEnriched == 3

PairNames == <<"Doge King", "Doge Clone", "DOGE QUEEN", "doge lord", "Cat Inu">>

PairSymbols == <<"DK", "DC", "DQ", "DL", "CI">>

LiquidityChoices == {Undefined, NoUsd, Usd(1), Usd(2)}

\* address 1 is harvested (by two feeds), the foreign address is not
ResolveAddresses == {ForeignAddress, 1}

\* the k-th EnrichedRecord of a run: its url, name and symbol are its own
EnrichedAt(k, addr, liquidity) ==
    Pair(<<0, k>>, addr, PairNames[k], PairSymbols[k], liquidity, Info("0"))

\* a harvest of MaxBlock addresses, hence of two chunks
ResolveHarvest ==
    <<Fulfilled(HarvestData(1, MaxBlock)), Fulfilled(HarvestData(2, 2)),
      Fulfilled(HarvestData(3, 0))>>

InitResolve ==
    /\ InitAt("merge")
    /\ \E len \in 0..MaxEnriched :
         \E f \in [1..len -> ResolveAddresses \X LiquidityChoices] :
           \E cut \in {c \in {0, 1} : c <= len} :
              LET list == [k \in 1..len |-> EnrichedAt(k, f[k][1], f[k][2])]
              IN  Enriched(ResolveHarvest,
                           <<SubSeq(list, 1, cut), SubSeq(list, cut + 1, len)>>)
    /\ resolvedTokens = <<>>
    /\ idx = 1
    /\ uniqueTokensMap = <<>>
    /\ finalTokenList = <<>>
    /\ pattern = NoPattern

NextResolve ==
    \/ MergeResults
    \/ DedupeIter
    \/ DedupeDone

SpecResolve == InitResolve /\ [][NextResolve]_vars

---------------------------------------------------------------------------
(* Pattern detection and the entry of getAiAnalysis on their own: the       *)
(* handler at the pattern step, the names and descriptions of the canonical *)
(* list drawn from bounded sets.                                            *)

\* longest list of freely chosen records
MaxTokens == 3

\* records appended to reach the fallback slice
MaxPad == 20

TokenPool == <<
    [name |-> "DOGE KING", description |-> Undefined],
    [name |-> "DOGE QUEEN", description |-> Undefined],
    [name |-> "DOGE LORD", description |-> Undefined],
    [name |-> "doge doge cat", description |-> Some("")],
    [name |-> "SOLANA MOON", description |-> Some("the doge of wall street")],
    [name |-> "Cat-Inu ($DOGE)", description |-> Undefined],
    [name |-> "dogecoin ai", description |-> Some("No description.")],
    [name |-> "SUPERCALIFRAGILISTIC 4U", description |-> Undefined] >>

PadToken == [name |-> "Moon", description |-> Undefined]

PadSizes == {0, MaxPad}

\* the harvested item and the EnrichedRecord behind the record at position
\* k of a list: its address is its own
DetectRaw(k, t) ==
    [description |-> t.description, chainId |-> "solana", tokenAddress |-> k,
     icon |-> Undefined, header |-> Undefined]

DetectPair(k, t) == Pair(<<0, k>>, k, t.name, "SYM", Undefined, Undefined)

InitDetect ==
    /\ InitAt("pattern")
    /\ \E len \in 0..MaxTokens :
         \E f \in [1..len -> 1..Len(TokenPool)] :
           \E pad \in PadSizes :
              LET tokens == [k \in 1..(len + pad) |->
                                IF k <= len THEN TokenPool[f[k]] ELSE PadToken]
              IN  Enriched(<<Fulfilled([k \in 1..Len(tokens) |-> DetectRaw(k, tokens[k])]),
                             Fulfilled(<<>>), Fulfilled(<<>>)>>,
                           chunkArray([k \in 1..Len(tokens) |-> DetectPair(k, tokens[k])],
                                      ChunkSize))
    /\ resolvedTokens = mergeResults(results)
    /\ idx = Len(resolvedTokens) + 1
    /\ uniqueTokensMap = dedupe(<<>>, resolvedTokens, allRaw)
    /\ finalTokenList = mapValues(uniqueTokensMap)
    /\ pattern = NoPattern

NextDetect ==
    \/ PatternRecognition
    \/ AiShortCircuit
    \/ AiRequest

SpecDetect == InitDetect /\ [][NextDetect]_vars

---------------------------------------------------------------------------
(* Properties: the Resolver (SpecResolve) *)

\* the liquidity a record competes with, a missing value ranking lowest
LiquidityRank(p) ==
    IF liquidityUsd(p) = Undefined THEN -1 ELSE liquidityUsd(p)[1]

SameSource(c, p) ==
    c.name = p.baseToken.name /\ c.symbol = p.baseToken.symbol /\ c.url = p.url

CanonicalFor(list, addr) ==
    list[CHOOSE i \in 1..Len(list) : list[i].address = addr]

\* C1: for two EnrichedRecords of one address, the canonical record's name,
\* symbol and url never come from the one with the smaller liquidity (a
\* missing liquidity being the smallest), wherever the two stand in the list.
C1_GreaterLiquidityWins ==
    pc = "pattern" =>
        \A i, j \in 1..Len(resolvedTokens) :
            LET p == resolvedTokens[i]
                q == resolvedTokens[j]
            IN  (/\ p.baseToken.address = q.baseToken.address
                 /\ LiquidityRank(p) > LiquidityRank(q))
                => ~SameSource(CanonicalFor(finalTokenList, q.baseToken.address), q)

AddressesDistinct(list) ==
    \A i, j \in 1..Len(list) : i # j => list[i].address # list[j].address

\* C2: the canonical list holds each address at most once, in every state of
\* the merge (the Map's values) and in the final finalTokenList.
C2_AddressUnique ==
    /\ AddressesDistinct(mapValues(uniqueTokensMap))
    /\ AddressesDistinct(finalTokenList)

\* C2 witness: two batches each returned a record of address 1, a third
\* record has the foreign address, and the finished list holds the two
\* addresses.
C2_Witness ==
    /\ pc = "pattern"
    /\ Len(resolvedTokens) = 3
    /\ \E k \in 1..Len(results[1].value) : results[1].value[k].baseToken.address = 1
    /\ \E k \in 1..Len(results[2].value) : results[2].value[k].baseToken.address = 1
    /\ \E k \in 1..Len(results[2].value) :
          results[2].value[k].baseToken.address = ForeignAddress
    /\ Len(finalTokenList) = 2

Orderings(n) ==
    {f \in [1..n -> 1..n] : \A i, j \in 1..n : f[i] = f[j] => i = j}

\* C3: every permutation of the enriched list resolves to the same name,
\* symbol and url for every address.
C3_OrderIndependent ==
    pc = "pattern" =>
        \A f \in Orderings(Len(resolvedTokens)) :
            LET permuted == [k \in 1..Len(resolvedTokens) |-> resolvedTokens[f[k]]]
                other == mapValues(dedupe(<<>>, permuted, allRaw))
            IN  \A k \in 1..Len(finalTokenList) :
                    LET c == finalTokenList[k]
                        d == CanonicalFor(other, c.address)
                    IN  c.name = d.name /\ c.symbol = d.symbol /\ c.url = d.url

---------------------------------------------------------------------------
(* Properties: the pipeline (Spec) *)

\* the pairs a successful lookup carried: res.data.pairs when present
PairsCarried(outcome) ==
    IF outcome.state # "fulfilled" THEN <<>>
    ELSE IF outcome.value = Undefined THEN <<>>
    ELSE IF outcome.value[1].pairs = Undefined THEN <<>>
    ELSE outcome.value[1].pairs[1]

Merged(stage) == stage \in {"dedupe", "pattern", "ai", "groq", "respond"}

Sent(envelope) == \E k \in 1..Len(responses) : responses[k] = envelope

\* C4: whichever lookups reject and in whatever order the batches settle,
\* one lookup is issued per chunk, all have settled before the merge, the
\* merged list is the concatenation, in chunk order, of what the successful
\* lookups carried, and no failure response follows a completed harvest.
C4_BatchFailureIsolated ==
    /\ (pc \in {"enrich", "merge"} \/ Merged(pc)) => Len(lookup) = Len(chunks)
    /\ (pc = "merge" \/ Merged(pc)) =>
          \A i \in 1..Len(lookup) : lookup[i].state # "pending"
    /\ Merged(pc) =>
          resolvedTokens = flatten([i \in 1..Len(lookup) |-> PairsCarried(lookup[i])])
    /\ AllFulfilled(harvest) => ~Sent(FailureEnvelope)
    /\ (pc = "done" /\ AllFulfilled(harvest)) =>
          /\ Len(responses) = 1
          /\ responses[1].status = 200
          /\ \A i \in 1..Len(lookup) : lookup[i].state # "pending"

\* C4 witness: of three batches the second lookup rejected, the others
\* carried pairs, and the request was answered with the success envelope.
C4_Witness ==
    /\ pc = "done"
    /\ Len(lookup) = 3
    /\ lookup[2].state = "rejected"
    /\ Len(PairsCarried(lookup[1])) > 0
    /\ Len(PairsCarried(lookup[3])) > 0
    /\ resolvedTokens = PairsCarried(lookup[1]) \o PairsCarried(lookup[3])
    /\ responses[1].body.success

\* C5: once a harvest call has rejected, the request has been answered with
\* the failure envelope alone and nothing downstream of the harvest has run.
C5_HarvestFailureFatal ==
    AnyRejected(harvest) =>
        /\ pc = "done"
        /\ responses = <<FailureEnvelope>>
        /\ FailureEnvelope.status = 500 /\ ~FailureEnvelope.body.success
        /\ allRaw = <<>> /\ uniqueAddresses = <<>> /\ chunks = <<>>
        /\ lookup = <<>> /\ results = <<>> /\ resolvedTokens = <<>>
        /\ finalTokenList = <<>> /\ pattern = NoPattern
        /\ groq = Idle /\ aiVerdict = Undefined

\* C5 witness: the profiles call succeeded with data, the boosts call
\* rejected, and the failure envelope was sent.
C5_Witness ==
    /\ harvest[1].state = "fulfilled"
    /\ Len(harvest[1].value) > 0
    /\ harvest[2].state = "rejected"
    /\ responses = <<FailureEnvelope>>

\* the collaborator call rejected
CallRejected == groq.state = "rejected"

\* the call resolved without a completion object or without a choices list
NoChoicesList ==
    /\ groq.state = "fulfilled"
    /\ (groq.settled.value = Undefined \/ groq.settled.value[1].choices = Undefined)

\* the call resolved with a choices list whose first choice, or that
\* choice's message, is missing
NoFirstMessage ==
    /\ groq.state = "fulfilled"
    /\ ~NoChoicesList
    /\ \/ Len(groq.settled.value[1].choices[1]) = 0
       \/ groq.settled.value[1].choices[1][1].message = Undefined

\* the call resolved with a first message whose content is missing or empty
EmptyContent ==
    /\ groq.state = "fulfilled"
    /\ ~NoChoicesList
    /\ ~NoFirstMessage
    /\ ~Truthy(groq.settled.value[1].choices[1][1].message[1].content)

Answered(text) ==
    /\ aiVerdict = Some(text)
    /\ pc = "done" =>
          /\ Len(responses) = 1
          /\ responses[1].status = 200
          /\ responses[1].body.success
          /\ responses[1].body.ai_analysis = text

\* C7 as stated: with a support count of 3 or more, a collaborator call that
\* rejects or resolves with a malformed response (no completion, no choices
\* list, no first choice or no message) gives the generation-failed
\* placeholder, and the request ends with the success envelope carrying it.
C7_FailureGivesFailedPlaceholder ==
    (pc \in {"respond", "done"} /\ pattern.count >= SupportThreshold
        /\ (CallRejected \/ NoChoicesList \/ NoFirstMessage))
    => Answered(GenerationFailed)

\* C7 amended: a call that rejects, or resolves without a completion object
\* or without a choices list, gives the generation-failed placeholder; a
\* completion whose first choice, message or content is missing or empty
\* gives the no-analysis text; either way getAiAnalysis returns and the
\* request ends with the success envelope (status 200) carrying that text.
C7_FailureAbsorbed ==
    (pc \in {"respond", "done"} /\ pattern.count >= SupportThreshold) =>
        /\ groq.state \in {"fulfilled", "rejected"}
        /\ (CallRejected \/ NoChoicesList) => Answered(GenerationFailed)
        /\ (NoFirstMessage \/ EmptyContent) => Answered(NoAnalysis)

\* C7 witness: the call was made for a theme of support 3 or more, it
\* rejected, and the success envelope carries the generation-failed text.
C7_Witness ==
    /\ pc = "done"
    /\ pattern.count >= SupportThreshold
    /\ CallRejected
    /\ responses[1].status = 200
    /\ responses[1].body.ai_analysis = GenerationFailed

---------------------------------------------------------------------------
(* Properties: chunkArray (SpecChunk) *)

ChunkSizes == [i \in 1..Len(chunks) |-> Len(chunks[i])]

\* C8: the batches are contiguous groups of the address list: ceil(n / 30)
\* of them, all of 30 addresses but the last, which has 1 to 30; none is
\* empty; in order they concatenate to the list and each address is in
\* exactly one; 65 addresses give sizes 30, 30, 5 and no address no batch.
C8_ChunkPartition ==
    pc # "chunk" =>
        LET n == Len(uniqueAddresses)
            m == Len(chunks)
        IN  /\ m * 30 >= n
            /\ m > 0 => (m - 1) * 30 < n
            /\ \A i \in 1..(m - 1) : Len(chunks[i]) = 30
            /\ m > 0 => Len(chunks[m]) \in 1..30
            /\ flatten(chunks) = uniqueAddresses
            /\ \A k \in 1..n :
                  Cardinality({i \in 1..m : \E j \in 1..Len(chunks[i]) :
                                  chunks[i][j] = uniqueAddresses[k]}) = 1
            /\ Len(lookup) = m
            /\ n = 65 => ChunkSizes = <<30, 30, 5>>
            /\ n = 0 => chunks = <<>>

\* C8 witness: 65 unique addresses were chunked into three batches of
\* 30, 30 and 5.
C8_Witness ==
    /\ pc = "enrich"
    /\ Len(uniqueAddresses) = 65
    /\ ChunkSizes = <<30, 30, 5>>

---------------------------------------------------------------------------
(* Properties: pattern detection and the narrative request (SpecDetect) *)

Detected == pc \in {"ai", "groq", "respond"}

\* the words of every name, before filtering
AllWords == [k \in 1..Len(finalTokenList) |-> nameWords(finalTokenList[k].name)]

\* a word the filter removes: shorter than 3, longer than 14, or a stop word
Removed(w) == Len(w) < 3 \/ Len(w) > 14 \/ IsStopWord(w)

SurvivorsIn(words) ==
    {w \in UNION {{words[k][i] : i \in 1..Len(words[k])} : k \in 1..Len(words)} :
        ~Removed(w)}

\* occurrences of w over all names, repeats inside one name included
TallyIn(words, w) ==
    Cardinality(UNION {{<<k, i>> : i \in {j \in 1..Len(words[k]) : words[k][j] = w}} :
                          k \in 1..Len(words)})

Names == [k \in 1..Len(finalTokenList) |-> finalTokenList[k].name]

\* C6: with a support count of 0, 1 or 2 the collaborator is never called
\* and getAiAnalysis returns the insufficient-evidence placeholder.
C6_NoCallBelowThreshold ==
    (pc \in {"groq", "respond"} /\ pattern.count < 3) =>
        /\ groq = Idle
        /\ aiVerdict = Some(InsufficientEvidence)

\* C6 witness: a theme of support 2 was found, getAiAnalysis returned the
\* placeholder and no call was made.
C6_Witness ==
    /\ pc = "respond"
    /\ pattern.count = 2
    /\ pattern.meta = "DOGE"
    /\ Len(pattern.filtered) > 0
    /\ groq = Idle
    /\ aiVerdict = Some(InsufficientEvidence)

\* C9: when a word survives the filter, the theme is a surviving word of
\* maximal tally and the support count is that tally; the names DOGE KING,
\* DOGE QUEEN, DOGE LORD give DOGE, 3, and all three records as evidence.
C9_ThemeMostFrequent ==
    Detected =>
        /\ LET words == AllWords
               survivors == SurvivorsIn(words)
           IN  survivors # {} =>
                  /\ pattern.meta \in survivors
                  /\ \A w \in survivors :
                        TallyIn(words, w) <= TallyIn(words, pattern.meta)
                  /\ pattern.count = TallyIn(words, pattern.meta)
        /\ Names = <<"DOGE KING", "DOGE QUEEN", "DOGE LORD">> =>
              /\ pattern.meta = "DOGE"
              /\ pattern.count = 3
              /\ pattern.filtered = finalTokenList

\* C9 witness: the three DOGE names were analysed.
C9_Witness ==
    /\ pc = "ai"
    /\ Names = <<"DOGE KING", "DOGE QUEEN", "DOGE LORD">>
    /\ pattern.meta = "DOGE"
    /\ pattern.count = 3
    /\ Len(pattern.filtered) = 3

\* C10: when the filter removes every word of every name, the result is the
\* "None" theme with support 0 and the first 20 records of the input, in
\* input order, as evidence (the whole input when it is shorter).
C10_NoneSentinel ==
    (Detected /\ SurvivorsIn(AllWords) = {}) =>
        /\ pattern.meta = "None"
        /\ pattern.count = 0
        /\ pattern.filtered =
              [k \in 1..Min(20, Len(finalTokenList)) |-> finalTokenList[k]]

\* C10 witness: more than 20 records, a stop word occurring in 20 of the
\* names, and the sentinel returned with the first 20 records.
C10_Witness ==
    /\ pc = "ai"
    /\ Len(finalTokenList) > 20
    /\ TallyIn(AllWords, "MOON") >= 20
    /\ pattern.meta = "None"
    /\ Len(pattern.filtered) = 20

---------------------------------------------------------------------------
(* Properties: the responses of one request (FairSpec) *)

\* the two envelopes the handler can send
IsEnvelope(r) ==
    \/ r = FailureEnvelope
    \/ (aiVerdict # Undefined
        /\ r = SuccessEnvelope(finalTokenList, pattern, aiVerdict[1]))

\* C11: a request whose upstream calls all settle is answered exactly once:
\* at most one response is ever sent, it is the success envelope or the
\* generic failure envelope with status 500, once sent it is not followed
\* or replaced by another, and every request received is eventually answered.
C11_ExactlyOneResponse ==
    /\ [](Len(responses) <= 1 /\ \A i \in 1..Len(responses) : IsEnvelope(responses[i]))
    /\ [][responses # <<>> /\ ~StartHunt => responses' = responses]_vars
    /\ ((pc = "harvest") ~> (Len(responses) = 1))

\* a request answered with the success envelope after the collaborator call
\* was rejected, every upstream call having settled
C11_Witness ==
    /\ pc = "done"
    /\ Len(responses) = 1
    /\ responses[1].status = 200
    /\ groq.state = "rejected"
    /\ AllFulfilled(harvest)

---------------------------------------------------------------------------
(* Properties: one request as a function of its upstream responses (Spec) *)

\* the canonical list the responses determine, each response read at the
\* place of its call
ListOf(h, l) ==
    mapValues(dedupe(<<>>, mergeResults([i \in 1..Len(l) |-> batchReturn(l[i])]),
                     filterRaw(h)))

\* the request was answered with the success envelope
Succeeded == responses # <<>> /\ responses[1].status = 200

\* the handler has passed the dedupe loop of this request
Resolved == pc \in {"pattern", "ai", "groq", "respond"} \/ Succeeded

\* the handler has passed pattern detection of this request
Themed == pc \in {"ai", "groq", "respond"} \/ Succeeded

\* C12: the batches requested, the canonical list and the theme result of a
\* request are functions of the upstream responses of that request alone,
\* each read at the place of its call: they depend neither on the order in
\* which the harvest calls and the lookups settled nor on an earlier request.
C12_FunctionOfResponses ==
    /\ pc \in {"enrich", "merge", "dedupe"} \/ Resolved
          => chunks = chunkArray(addressesOf(filterRaw(harvest)), ChunkSize)
    /\ Resolved => finalTokenList = ListOf(harvest, lookup)
    /\ Themed => pattern = findMetaPattern(ListOf(harvest, lookup))
    /\ Succeeded =>
          /\ responses[1].body.total_scanned = Len(ListOf(harvest, lookup))
          /\ responses[1].body.meta_keyword = findMetaPattern(ListOf(harvest, lookup)).meta
          /\ responses[1].body.meta_count = findMetaPattern(ListOf(harvest, lookup)).count
          /\ responses[1].body.filtered_list =
                 findMetaPattern(ListOf(harvest, lookup)).filtered

\* a request answered from two batches that both returned records
C12_Witness ==
    /\ Succeeded
    /\ Len(chunks) = 2
    /\ \A i \in 1..Len(chunks) : Len(results[i].value) > 1
    /\ Len(finalTokenList) > 2

---------------------------------------------------------------------------
(* Properties: when the harvest stage completes (Spec) *)

\* the harvest stage of the request is over
HarvestOver == pc \notin {"idle", "harvest"}

\* C13 as stated: the harvest stage is over, with success or with failure,
\* only when none of the three harvest calls is pending.
C13_CompletesWhenAllSettled ==
    HarvestOver => \A e \in Endpoints : harvest[e].state # "pending"

\* C13: the harvest stage succeeds only when all three calls have resolved,
\* and it fails in the very step in which the first call rejects: the failure
\* response is sent then, whether or not other calls are still pending.
C13_FailsAtFirstRejection ==
    /\ [](HarvestOver /\ ~Sent(FailureEnvelope) => AllFulfilled(harvest))
    /\ [](Sent(FailureEnvelope) => AnyRejected(harvest))
    /\ [][pc = "harvest" /\ AnyRejected(harvest')
            => pc' = "done" /\ responses' = <<FailureEnvelope>>]_vars

\* the failure response was sent while two harvest calls were still pending
C13_Witness ==
    /\ Sent(FailureEnvelope)
    /\ Cardinality({e \in Endpoints : harvest[e].state = "pending"}) = 2
    /\ Cardinality({e \in Endpoints : harvest[e].state = "rejected"}) = 1

---------------------------------------------------------------------------
(* Properties: support count and evidence (SpecDetect) *)

\* a theme was found
ThemeFound == Detected /\ SurvivorsIn(AllWords) # {}

\* the records whose tokenized name contains w
RecordsWith(words, w) ==
    {k \in 1..Len(words) : \E i \in 1..Len(words[k]) : words[k][i] = w}

\* the occurrences of w in the tokenized name of record k
OccurrencesIn(words, k, w) == Cardinality({i \in 1..Len(words[k]) : words[k][i] = w})

\* C14 as stated: the support count is the number of records whose
\* tokenized name contains the theme word, also when a name repeats it.
C14_CountsRecords ==
    ThemeFound => pattern.count = Cardinality(RecordsWith(AllWords, pattern.meta))

\* C14: the support count is the number of occurrences of the theme word in
\* the tokenized names, a name that contains it twice counting twice: it is
\* never below the number of records whose name contains the word, and equals
\* that number exactly when no name repeats the word.
C14_CountsOccurrences ==
    ThemeFound =>
        LET words == AllWords
            with == RecordsWith(words, pattern.meta)
        IN  /\ pattern.count = TallyIn(words, pattern.meta)
            /\ pattern.count >= Cardinality(with)
            /\ pattern.count = Cardinality(with)
                  <=> \A k \in with : OccurrencesIn(words, k, pattern.meta) = 1

\* one record, whose name holds the theme word twice, and a support count of 2
C14_Witness ==
    /\ pc = "ai"
    /\ Names = <<"doge doge cat">>
    /\ pattern.meta = "DOGE"
    /\ pattern.count = 2

\* w occurs in s as a run of consecutive characters
Contains(s, w) == \E i \in 1..Len(s) : \E j \in i..Len(s) : SubSeq(s, i, j) = w

\* the positions of the records whose upper-cased name or upper-cased
\* description contains w
Matching(list, w) ==
    {k \in 1..Len(list) :
        \/ Contains(toUpperCase(list[k].name), w)
        \/ (list[k].description # Undefined
            /\ Contains(toUpperCase(list[k].description[1]), w))}

\* the records of list at the positions of S, in the order of the list
Pick(list, S) ==
    [n \in 1..Cardinality(S) |->
        list[CHOOSE k \in S : Cardinality({j \in S : j < k}) = n - 1]]

\* C15: when a theme is found the evidence is exactly the records whose
\* upper-cased name or upper-cased description contains the theme word as a
\* substring, in input order and each once; every record whose name holds a
\* counted occurrence of the theme is among them, so the evidence is not empty.
C15_EvidenceBySubstring ==
    ThemeFound =>
        LET matching == Matching(finalTokenList, pattern.meta)
        IN  /\ pattern.filtered = Pick(finalTokenList, matching)
            /\ \A i, j \in 1..Len(pattern.filtered) :
                   i # j => pattern.filtered[i].address # pattern.filtered[j].address
            /\ RecordsWith(AllWords, pattern.meta) \subseteq matching
            /\ Len(pattern.filtered) > 0

\* evidence of three records for a theme counted once: one by the word in its
\* name, one by a longer word of its name, one by its description alone
C15_Witness ==
    /\ pc = "ai"
    /\ Names = <<"DOGE KING", "dogecoin ai", "SOLANA MOON">>
    /\ pattern.meta = "DOGE"
    /\ pattern.count = 1
    /\ Len(pattern.filtered) = 3

---------------------------------------------------------------------------
(* Properties: which addresses are surfaced (Spec) *)

\* the baseToken addresses of the EnrichedRecords the succeeded lookups returned
EnrichedAddresses ==
    UNION {{PairsCarried(lookup[i])[k].baseToken.address :
               k \in 1..Len(PairsCarried(lookup[i]))} : i \in 1..Len(lookup)}

AddressesIn(list) == {list[k].address : k \in 1..Len(list)}

\* C16: the addresses of the canonical list are exactly the baseToken
\* addresses of the EnrichedRecords returned by the lookups that succeeded; a
\* harvested address without an EnrichedRecord, every address of a failed
\* batch included, is neither in the canonical list nor in the evidence.
C16_OnlyEnrichedSurfaced ==
    /\ Resolved => AddressesIn(finalTokenList) = EnrichedAddresses
    /\ Resolved =>
          \A k \in 1..Len(uniqueAddresses) :
             uniqueAddresses[k] \notin EnrichedAddresses
                => uniqueAddresses[k] \notin AddressesIn(finalTokenList)
    /\ Themed =>
          \A k \in 1..Len(uniqueAddresses) :
             uniqueAddresses[k] \notin EnrichedAddresses
                => uniqueAddresses[k] \notin AddressesIn(pattern.filtered)
    /\ \A i \in 1..Len(lookup) :
          (Resolved /\ lookup[i].state = "rejected" /\ chunks[i][1] \notin EnrichedAddresses)
             => chunks[i][1] \notin AddressesIn(finalTokenList)

\* a request answered after one lookup failed and another returned records:
\* harvested addresses were dropped, an address that was not harvested is listed
C16_Witness ==
    /\ Succeeded
    /\ \E i \in 1..Len(lookup) : lookup[i].state = "rejected"
    /\ \E i \in 1..Len(lookup) : Len(PairsCarried(lookup[i])) > 1
    /\ Len(finalTokenList) > 0
    /\ \E k \in 1..Len(uniqueAddresses) :
          uniqueAddresses[k] \notin AddressesIn(finalTokenList)
    /\ ForeignAddress \in AddressesIn(finalTokenList)

---------------------------------------------------------------------------
(* Properties: icon, header and description of a canonical record (Spec) *)

\* the positions of the RawCandidates with address addr
RawPositions(addr) == {i \in 1..Len(allRaw) : allRaw[i].tokenAddress = addr}

\* the RawCandidate with address addr, the first in harvest order
FirstRaw(addr) ==
    allRaw[CHOOSE i \in RawPositions(addr) : \A j \in RawPositions(addr) : i <= j]

\* field key of the EnrichedRecord's info object
InfoField(p, key) == IF p.info = Undefined THEN Undefined ELSE prop(p.info[1], key)

\* icon, header and description of c are those of its RawCandidate
FromRaw(c) ==
    /\ c.icon = FirstRaw(c.address).icon
    /\ c.header = FirstRaw(c.address).header
    /\ c.description = FirstRaw(c.address).description

\* the EnrichedRecords that supplied c: its address, name, symbol and url
Suppliers(c) ==
    {i \in 1..Len(resolvedTokens) :
        /\ resolvedTokens[i].baseToken.address = c.address
        /\ SameSource(c, resolvedTokens[i])}

\* C17 as stated: icon, header and description of a canonical record are
\* those of the RawCandidate with its address when there is one, and else
\* all three are fields of the EnrichedRecord that won for the address.
C17_FallbackFromEnriched ==
    Resolved =>
        \A k \in 1..Len(finalTokenList) :
            LET c == finalTokenList[k]
            IN  IF RawPositions(c.address) # {} THEN FromRaw(c)
                ELSE \E i \in Suppliers(c) :
                        /\ c.icon = InfoField(resolvedTokens[i], "imageUrl")
                        /\ c.header = InfoField(resolvedTokens[i], "header")
                        /\ c.description = InfoField(resolvedTokens[i], "description")

\* C17: icon, header and description of a canonical record are those of the
\* RawCandidate with its address when there is one (the first in harvest
\* order), whatever the EnrichedRecord carries; else icon and header are the
\* image and header of the EnrichedRecord that supplied the record's name,
\* symbol and url, and the description is the text "No description.".
C17_RawElseFallback ==
    Resolved =>
        \A k \in 1..Len(finalTokenList) :
            LET c == finalTokenList[k]
            IN  IF RawPositions(c.address) # {} THEN FromRaw(c)
                ELSE /\ c.description = Some("No description.")
                     /\ \E i \in Suppliers(c) :
                           /\ c.icon = InfoField(resolvedTokens[i], "imageUrl")
                           /\ c.header = InfoField(resolvedTokens[i], "header")

\* a list with a record that took its fields from a RawCandidate, though its
\* EnrichedRecord carries an image, and a record of an address that was not
\* harvested, with the image of its EnrichedRecord
C17_Witness ==
    /\ pc = "pattern"
    /\ \E k \in 1..Len(finalTokenList) :
          /\ RawPositions(finalTokenList[k].address) # {}
          /\ Cardinality(RawPositions(finalTokenList[k].address)) > 1
          /\ \E i \in Suppliers(finalTokenList[k]) : resolvedTokens[i].info # Undefined
    /\ \E k \in 1..Len(finalTokenList) :
          /\ finalTokenList[k].address = ForeignAddress
          /\ finalTokenList[k].icon = Some("image4")
          /\ finalTokenList[k].description = Some("No description.")

---------------------------------------------------------------------------
(* Properties: calls and stages of one request (Spec) *)

StageOrder ==
    <<"idle", "harvest", "chunk", "enrich", "merge", "dedupe", "pattern", "ai",
      "groq", "respond", "done">>

Rank(stage) == CHOOSE i \in 1..Len(StageOrder) : StageOrder[i] = stage

HasSettled(call) == call.state \in {"fulfilled", "rejected"}

\* within one request the handler only moves forward through its stages
StagesInOrder == ~StartHunt => Rank(pc') >= Rank(pc)

\* a harvest call is issued only as a request arrives, and its only other
\* change is that it settles, once
HarvestCalledOnce ==
    \A e \in Endpoints :
        harvest'[e] # harvest[e] =>
            \/ StartHunt /\ harvest'[e] = Pending
            \/ harvest[e] = Pending /\ HasSettled(harvest'[e])

\* the lookups are issued together, one per batch, when there are none yet
\* and all three harvest calls have resolved; the only other change of a
\* lookup is that it settles, once
LookupCalledOnce ==
    (lookup' # lookup /\ ~StartHunt) =>
        \/ /\ lookup = <<>>
           /\ AllFulfilled(harvest)
           /\ Len(lookup') = Len(chunks')
           /\ \A i \in 1..Len(lookup') : lookup'[i] = Pending
        \/ /\ Len(lookup') = Len(lookup)
           /\ chunks' = chunks
           /\ \A i \in 1..Len(lookup) :
                 lookup'[i] # lookup[i] => lookup[i] = Pending /\ HasSettled(lookup'[i])

\* the collaborator is called when it has not been called, every lookup has
\* settled and the support count is at least 3; the only other change of
\* the call is that it settles, once
GroqCalledOnce ==
    (groq' # groq /\ ~StartHunt) =>
        \/ /\ groq = Idle
           /\ groq'.state = "pending"
           /\ AllFulfilled(harvest)
           /\ \A i \in 1..Len(lookup) : HasSettled(lookup[i])
           /\ Themed /\ pattern.count >= SupportThreshold
        \/ groq.state = "pending" /\ HasSettled(groq')

\* C18: within one request no call is retried and the stages run in order:
\* each harvest endpoint is called at most once, each batch is looked up at
\* most once and only after the three harvest calls resolved, and the
\* collaborator is called at most once, only after every lookup has settled
\* and pattern detection gave a support count of at least 3.
C18_NoRetryStagesInOrder ==
    /\ [][StagesInOrder]_vars
    /\ [][HarvestCalledOnce]_vars
    /\ [][LookupCalledOnce]_vars
    /\ [][GroqCalledOnce]_vars

\* a request answered after every kind of call was made: a lookup rejected,
\* another resolved, and the collaborator resolved
C18_Witness ==
    /\ Succeeded
    /\ pc = "done"
    /\ Len(lookup) = 2
    /\ \E i \in 1..Len(lookup) : lookup[i].state = "rejected"
    /\ \E i \in 1..Len(lookup) : lookup[i].state = "fulfilled"
    /\ groq.state = "fulfilled"
    /\ pattern.count >= SupportThreshold

---------------------------------------------------------------------------
(* Properties: words of equal tally (SpecDetect) *)

\* the places <<record, position in its tokenized name>> where w occurs
PlacesOf(words, w) ==
    UNION {{<<k, i>> : i \in {j \in 1..Len(words[k]) : words[k][j] = w}} :
              k \in 1..Len(words)}

\* place a comes before place b: an earlier record, or the same record and
\* an earlier position
Before(a, b) == a[1] < b[1] \/ (a[1] = b[1] /\ a[2] < b[2])

\* w occurs, and first occurs before every occurrence of v
FirstSeenBefore(words, w, v) ==
    \E a \in PlacesOf(words, w) : \A b \in PlacesOf(words, v) : Before(a, b)

\* the surviving words of maximal tally
TopWords(words) ==
    {w \in SurvivorsIn(words) :
        \A v \in SurvivorsIn(words) : TallyIn(words, v) <= TallyIn(words, w)}

\* C19: when several surviving words share the maximal tally, the theme is
\* the one of them whose first occurrence is the earliest in the input: the
\* earliest record, then the earliest position inside the name.
C19_TieFirstSeen ==
    ThemeFound =>
        LET words == AllWords
            top == TopWords(words)
        IN  /\ pattern.meta \in top
            /\ \A v \in top \ {pattern.meta} : FirstSeenBefore(words, pattern.meta, v)

\* CAT and DOGE both occur twice, CAT first: the theme is CAT
C19_Witness ==
    /\ pc = "ai"
    /\ Names = <<"Cat-Inu ($DOGE)", "doge doge cat">>
    /\ TallyIn(AllWords, "DOGE") = 2
    /\ pattern.meta = "CAT"
    /\ pattern.count = 2

---------------------------------------------------------------------------
(* Properties: a scan that resolves nothing (FairSpec) *)

\* the three harvest calls resolved, the lookups were issued, and none
\* resolved: each rejected, or the harvest had no target-chain item and
\* there was no batch to look up
NothingEnriched ==
    /\ AllFulfilled(harvest)
    /\ pc \in {"merge", "dedupe", "pattern", "ai", "groq", "respond", "done"}
    /\ \A i \in 1..Len(lookup) : lookup[i].state = "rejected"

\* C20: when the three harvest calls succeed and every enrichment batch
\* fails, or the harvest has no target-chain item, the collaborator is not
\* called, no failure response is sent, and the request ends with the success
\* envelope: total_scanned 0, the "None" theme, meta_count 0, an empty
\* filtered_list and the insufficient-evidence placeholder.
EmptyScanAnswer ==
    /\ Len(responses) = 1
    /\ responses[1].status = 200
    /\ responses[1].body.success = TRUE
    /\ responses[1].body.total_scanned = 0
    /\ responses[1].body.meta_keyword = "None"
    /\ responses[1].body.meta_count = 0
    /\ responses[1].body.filtered_list = <<>>
    /\ responses[1].body.ai_analysis = InsufficientEvidence

C20_EmptyScanSucceeds ==
    /\ [](NothingEnriched =>
            /\ groq = Idle
            /\ ~Sent(FailureEnvelope)
            /\ pc = "done" => EmptyScanAnswer)
    /\ (NothingEnriched ~> (pc = "done" /\ NothingEnriched /\ EmptyScanAnswer))

\* a request answered after both of its lookups rejected
C20_Witness ==
    /\ pc = "done"
    /\ NothingEnriched
    /\ Len(lookup) = 2
    /\ Len(uniqueAddresses) > ChunkSize
    /\ Succeeded

\* a request answered after a harvest without a target-chain item
C20_WitnessNoItem ==
    /\ pc = "done"
    /\ NothingEnriched
    /\ Len(harvest[2].value) > 0
    /\ Len(allRaw) = 0
    /\ Len(lookup) = 0
    /\ Succeeded

====
